---- MODULE Spec2Model ----
(***************************************************************************)
(* The interview session orchestrator of streamlit_app.py: the session     *)
(* state kept in st.session_state, the chat input handler, the sidebar     *)
(* handlers (New Session, Generate Report) and auto_save_transcript.       *)
(***************************************************************************)
EXTENDS Integers, Sequences, FiniteSets, TLC

(* ------------------------------ bounds -------------------------------- *)

\* Events (handler runs and clock ticks) over the lifetime of the process.
MaxEvents == 7

(* ------------------------- program constants -------------------------- *)

\* st.session_state.mult_questions >= 5
TransitionThreshold == 5
\* len(st.session_state.messages) % 4 == 0
AutoSaveInterval == 4
\* len(st.session_state.messages) > 2
ResetSaveMin == 2
\* len(st.session_state.messages) < 6
ReportMinTurns == 6
\* st.session_state.messages[-20:]
WindowSize == 20
\* st.session_state.mult_questions = 1
InitMultQuestions == 1
\* st.session_state.div_questions = 0
InitDivQuestions == 0

\* The literal texts of the program, and the texts it builds from an exception.
Welcome == "welcome"
Transition == "transition"
ErrorMarker == "error"
SystemPrompt == "system"
ReportError == "report_error"
\* Python's None, as st.session_state.current_report holds it.
None == "None"

(* ------------------------- the environment ---------------------------- *)

\* What the respondent types (st.chat_input returns only non-empty text).
Prompts == {"answer"}
\* What the chat completion call does: it streams a text, streams nothing,
\* or raises.  The texts it generates are not the program's literals.
Reply == "reply"
Empty == ""
ChatOutcomes == {"ok", "empty", "fail"}
\* What the report completion call does: it returns a document, returns a
\* message without content, or raises.
ReportDoc == "report"
ReportOutcomes == {"ok", "nocontent", "fail"}
\* What writing the snapshot file does: it succeeds, open() raises (the file
\* is left as it was), or json.dump raises after open() truncated the file.
SaveOutcomes == {"ok", "fail_open", "fail_write"}

\* The values of the clock, and so of strftime("%Y%m%d_%H%M%S").
Ids == 0..MaxEvents

VARIABLES
    messages,          \* st.session_state.messages
    conversation_id,   \* st.session_state.conversation_id
    phase,             \* st.session_state.phase
    mult_questions,    \* st.session_state.mult_questions
    div_questions,     \* st.session_state.div_questions
    report_generated,  \* st.session_state.report_generated
    current_report,    \* st.session_state.current_report
    now,               \* datetime.now(), in seconds
    files,             \* interview_<id>.json, by id
    lastSave,          \* the auto_save_transcript call of the last chat or
                       \* New Session handler run
    lastCall,          \* the messages of the chat completion call of the
                       \* last chat or New Session handler run
    peer,              \* a second browser session of the same process
    created,           \* the conversation ids assigned so far, in order
    events             \* events so far

vars == <<messages, conversation_id, phase, mult_questions, div_questions,
          report_generated, current_report, now, files, lastSave, lastCall,
          peer, created, events>>

(* ----------------------------- helpers -------------------------------- *)

Turn(r, c) == [role |-> r, content |-> c]

\* Mutant: the welcome turn is not appended.
InitMessagesEmpty == <<>>

\* messages = [] followed by the append of the welcome turn.
InitMessages == <<Turn("assistant", Welcome)>>

\* The dictionary auto_save_transcript serialises.
SaveData(id, t, msgs, ph, mq, dq) ==
    [session_id |-> id, timestamp |-> t, messages |-> msgs, phase |-> ph,
     mult_questions |-> mq, div_questions |-> dq]

FileAbsent == [status |-> "absent", content |-> <<>>]
FileTruncated == [status |-> "truncated", content |-> <<>>]
FileSaved(d) == [status |-> "saved", content |-> <<d>>]

\* interview_<id>.json after auto_save_transcript ran with outcome o.
FileAfterSave(old, d, o) ==
    CASE o = "ok" -> FileSaved(d)
      [] o = "fail_open" -> old
      [] o = "fail_write" -> FileTruncated

NoSave == [called |-> FALSE, data |-> <<>>, result |-> "none"]
\* The call's return value: the file name, or None from the except branch.
SaveCall(d, o) ==
    [called |-> TRUE, data |-> <<d>>,
     result |-> IF o = "ok" THEN "filename" ELSE None]

\* Mutant: the except branch is missing and a failed write leaves the call
\* as an exception.
SaveRaisesOnFailure(o) == o # "ok"

\* An exception leaves auto_save_transcript: never, "except Exception"
\* returns None.
SaveRaises(o) == FALSE

\* No chat completion call was made.
NoCall == <<>>

\* The second session before its first script run, and after it.
PeerOff ==
    [active |-> FALSE, conversation_id |-> 0, messages |-> <<>>,
     phase |-> "multiplication", mult_questions |-> 0, div_questions |-> 0]
PeerFresh(t) ==
    [active |-> TRUE, conversation_id |-> t, messages |-> InitMessages,
     phase |-> "multiplication", mult_questions |-> InitMultQuestions,
     div_questions |-> InitDivQuestions]

\* Mutant: the length is tested as it will be after the assistant's turn.
AutoSaveDueAfterReply(msgs) == (Len(msgs) + 1) % AutoSaveInterval = 0

\* if len(messages) % 4 == 0
AutoSaveDue(msgs) == Len(msgs) % AutoSaveInterval = 0

\* Mutants of insert_transition: the threshold compared with >, and the
\* phase and div_questions conditions left out.
InsertTransitionStrict(ph, mq, dq) ==
    ph = "multiplication" /\ mq > TransitionThreshold /\ dq = 0
InsertTransitionCountOnly(ph, mq, dq) == mq >= TransitionThreshold

\* insert_transition
InsertTransition(ph, mq, dq) ==
    ph = "multiplication" /\ mq >= TransitionThreshold /\ dq = 0

\* Mutant: the slice is [:20], the oldest turns.
ModelMessagesOldest(msgs) ==
    <<Turn("system", SystemPrompt)>> \o
    SubSeq(msgs, 1, IF Len(msgs) > WindowSize THEN WindowSize ELSE Len(msgs))

\* messages[-20:] behind the system message.
ModelMessages(msgs) ==
    <<Turn("system", SystemPrompt)>> \o
    SubSeq(msgs, IF Len(msgs) > WindowSize THEN Len(msgs) - WindowSize + 1 ELSE 1,
           Len(msgs))

\* response_text of the else branch: write_stream's result or the except text.
GeneratedText(o) ==
    CASE o = "ok" -> Reply
      [] o = "empty" -> Empty
      [] o = "fail" -> ErrorMarker

\* response_text
ResponseText(ins, o) == IF ins THEN Transition ELSE GeneratedText(o)

\* Mutant: the else branch sets the phase back.
PhaseAfterDispatchReset(ph, ins) == IF ins THEN "division" ELSE "multiplication"

\* phase and div_questions after the dispatch.
PhaseAfterDispatch(ph, ins) == IF ins THEN "division" ELSE ph
DivAfterDispatch(dq, ins) == IF ins THEN 1 ELSE dq

\* Mutant: the except branch leaves without appending the assistant turn.
AppendAssistantSkipError(msgs, text) ==
    IF text = ErrorMarker THEN msgs ELSE Append(msgs, Turn("assistant", text))

\* messages.append({"role": "assistant", "content": response_text})
AppendAssistant(msgs, text) == Append(msgs, Turn("assistant", text))

\* Mutants of the counter update: a failed call is not counted, and the
\* transition is counted as a division question.
MultAfterUpdateSkipError(ph, ins, o, mq) ==
    IF ph = "multiplication" /\ ~ins /\ o # "fail" THEN mq + 1 ELSE mq
DivAfterUpdateCountTransition(ph, ins, o, dq) ==
    IF ph = "multiplication" /\ ~ins THEN dq
    ELSE IF ph = "division" THEN dq + 1 ELSE dq

\* Mutants of the counter update: mult_questions counted in every phase, and
\* an empty reply not counted.
MultAfterUpdateAnyPhase(ph, ins, o, mq) == IF ~ins THEN mq + 1 ELSE mq
DivAfterUpdateSkipEmpty(ph, ins, o, dq) ==
    IF ph = "multiplication" /\ ~ins THEN dq
    ELSE IF ph = "division" /\ ~ins /\ o # "empty" THEN dq + 1 ELSE dq

\* Update counters.
MultAfterUpdate(ph, ins, o, mq) ==
    IF ph = "multiplication" /\ ~ins THEN mq + 1 ELSE mq
DivAfterUpdate(ph, ins, o, dq) ==
    IF ph = "multiplication" /\ ~ins THEN dq
    ELSE IF ph = "division" /\ ~ins THEN dq + 1 ELSE dq

\* Mutant: a closing rule ends the division phase at the threshold.
NextPhaseClosing(ph, mq, dq) ==
    IF ph = "division" /\ dq >= TransitionThreshold THEN "done"
    ELSE PhaseAfterDispatch(ph, InsertTransition(ph, mq, dq))

\* The handler's effect on phase and counters, from their values before it.
NextPhase(ph, mq, dq) == PhaseAfterDispatch(ph, InsertTransition(ph, mq, dq))
NextMult(ph, mq, dq, o) ==
    LET ins == InsertTransition(ph, mq, dq)
    IN MultAfterUpdate(PhaseAfterDispatch(ph, ins), ins, o, mq)
NextDiv(ph, mq, dq, o) ==
    LET ins == InsertTransition(ph, mq, dq)
    IN DivAfterUpdate(PhaseAfterDispatch(ph, ins), ins, o,
                      DivAfterDispatch(dq, ins))

\* Mutant: the button is rendered whatever the length.
ReportOfferedAlways(msgs) == Len(msgs) >= 0

\* Report generation is offered.
ReportOffered(msgs) == ~(Len(msgs) < ReportMinTurns)

\* Mutant: the except branch returns None, as auto_save_transcript's does.
ReportValueNoneOnFailure(o) == IF o = "ok" THEN ReportDoc ELSE None

\* The value generate_interview_report returns.
ReportValue(o) ==
    CASE o = "ok" -> ReportDoc
      [] o = "nocontent" -> None
      [] o = "fail" -> ReportError

\* Mutant: the save is made whatever the length.
ResetSaveDueAlways(msgs) == Len(msgs) > 0

\* The New Session handler saves first.
ResetSaveDue(msgs) == Len(msgs) > ResetSaveMin

(* ------------------------------ Init ---------------------------------- *)

Init ==
    /\ now = 0
    /\ messages = InitMessages
    /\ conversation_id = now
    /\ phase = "multiplication"
    /\ mult_questions = InitMultQuestions
    /\ div_questions = InitDivQuestions
    /\ report_generated = FALSE
    /\ current_report = None
    /\ files = [i \in Ids |-> FileAbsent]
    /\ lastSave = NoSave
    /\ lastCall = NoCall
    /\ peer = PeerOff
    /\ created = <<conversation_id>>
    /\ events = 0

(* ----------------------------- actions -------------------------------- *)

\* The wall clock advances.
Tick ==
    /\ events < MaxEvents
    /\ events' = events + 1
    /\ now' = now + 1
    /\ UNCHANGED <<messages, conversation_id, phase, mult_questions,
                   div_questions, report_generated, current_report, files,
                   lastSave, lastCall, peer, created>>

\* The chat input handler, from the append of the respondent's turn to the rerun.
Submit(prompt, o, so) ==
    /\ events < MaxEvents
    /\ events' = events + 1
    /\ LET m1 == Append(messages, Turn("user", prompt))
           due == AutoSaveDue(m1)
           d == SaveData(conversation_id, now, m1, phase, mult_questions,
                         div_questions)
           ins == InsertTransition(phase, mult_questions, div_questions)
       IN /\ files' = IF due
                      THEN [files EXCEPT ![conversation_id] =
                                FileAfterSave(@, d, so)]
                      ELSE files
          /\ lastSave' = IF due THEN SaveCall(d, so) ELSE NoSave
          /\ IF due /\ SaveRaises(so)
             THEN \* the exception ends the script run
                  /\ messages' = m1
                  /\ lastCall' = NoCall
                  /\ UNCHANGED <<phase, mult_questions, div_questions>>
             ELSE /\ lastCall' = IF ins THEN NoCall ELSE ModelMessages(m1)
                  /\ messages' = AppendAssistant(m1, ResponseText(ins, o))
                  /\ phase' = NextPhase(phase, mult_questions, div_questions)
                  /\ mult_questions' =
                        NextMult(phase, mult_questions, div_questions, o)
                  /\ div_questions' =
                        NextDiv(phase, mult_questions, div_questions, o)
    /\ UNCHANGED <<conversation_id, report_generated, current_report, now,
                   peer, created>>

\* The Generate Report button.
GenerateReport(o) ==
    /\ events < MaxEvents
    /\ events' = events + 1
    /\ ReportOffered(messages)
    /\ current_report' = ReportValue(o)
    /\ report_generated' = TRUE
    /\ UNCHANGED <<messages, conversation_id, phase, mult_questions,
                   div_questions, now, files, lastSave, lastCall, peer,
                   created>>

\* The New Session button: save, clear, and the initialisation of the rerun.
NewSession(so) ==
    /\ events < MaxEvents
    /\ events' = events + 1
    /\ LET due == ResetSaveDue(messages)
           d == SaveData(conversation_id, now, messages, phase,
                         mult_questions, div_questions)
       IN /\ files' = IF due
                      THEN [files EXCEPT ![conversation_id] =
                                FileAfterSave(@, d, so)]
                      ELSE files
          /\ lastSave' = IF due THEN SaveCall(d, so) ELSE NoSave
          /\ IF due /\ SaveRaises(so)
             THEN \* the exception ends the script run before clear()
                  UNCHANGED <<messages, conversation_id, phase,
                              mult_questions, div_questions, report_generated,
                              current_report, created>>
             ELSE /\ messages' = InitMessages
                  /\ conversation_id' = now
                  /\ phase' = "multiplication"
                  /\ mult_questions' = InitMultQuestions
                  /\ div_questions' = InitDivQuestions
                  /\ report_generated' = FALSE
                  /\ current_report' = None
                  /\ created' = Append(created, now)
    /\ lastCall' = NoCall
    /\ UNCHANGED <<now, peer>>

Next ==
    \/ Tick
    \/ \E p \in Prompts, o \in ChatOutcomes, so \in SaveOutcomes : Submit(p, o, so)
    \/ \E o \in ReportOutcomes : GenerateReport(o)
    \/ \E so \in SaveOutcomes : NewSession(so)

Spec == Init /\ [][Next]_vars


(* ------------------- two sessions of one process --------------------- *)

\* A second browser session runs the script for the first time.
PeerOpen ==
    /\ events < MaxEvents
    /\ events' = events + 1
    /\ ~peer.active
    /\ peer' = PeerFresh(now)
    /\ UNCHANGED <<messages, conversation_id, phase, mult_questions,
                   div_questions, report_generated, current_report, now,
                   files, lastSave, lastCall, created>>

\* The chat input handler, run for the second session.
PeerSubmit(prompt, o, so) ==
    /\ events < MaxEvents
    /\ events' = events + 1
    /\ peer.active
    /\ LET m1 == Append(peer.messages, Turn("user", prompt))
           due == AutoSaveDue(m1)
           d == SaveData(peer.conversation_id, now, m1, peer.phase,
                         peer.mult_questions, peer.div_questions)
           ins == InsertTransition(peer.phase, peer.mult_questions,
                                   peer.div_questions)
       IN /\ files' = IF due
                      THEN [files EXCEPT ![peer.conversation_id] =
                                FileAfterSave(@, d, so)]
                      ELSE files
          /\ peer' =
               IF due /\ SaveRaises(so)
               THEN [peer EXCEPT !.messages = m1]
               ELSE [peer EXCEPT
                       !.messages = AppendAssistant(m1, ResponseText(ins, o)),
                       !.phase = NextPhase(peer.phase, peer.mult_questions,
                                           peer.div_questions),
                       !.mult_questions =
                           NextMult(peer.phase, peer.mult_questions,
                                    peer.div_questions, o),
                       !.div_questions =
                           NextDiv(peer.phase, peer.mult_questions,
                                   peer.div_questions, o)]
    /\ UNCHANGED <<messages, conversation_id, phase, mult_questions,
                   div_questions, report_generated, current_report, now,
                   lastSave, lastCall, created>>

NextTwo ==
    \/ Tick
    \/ \E p \in Prompts, o \in ChatOutcomes, so \in SaveOutcomes : Submit(p, o, so)
    \/ PeerOpen
    \/ \E p \in Prompts, o \in ChatOutcomes, so \in SaveOutcomes :
          PeerSubmit(p, o, so)

SpecTwo == Init /\ [][NextTwo]_vars

(* --------------------------- long sessions ---------------------------- *)

\* Submissions answered before the first state.
MaxPrior == 11
\* Handler runs from the first state on.
LongSteps == 2

\* What the respondent typed in those submissions.
PriorPrompts ==
    <<"a1", "a2", "a3", "a4", "a5", "a6", "a7", "a8", "a9", "a10", "a11",
      "a12", "a13", "a14">>

\* What the completion call did in the i-th of them.
PriorOutcome(i, seed) ==
    CASE (i + seed) % 3 = 0 -> "ok"
      [] (i + seed) % 3 = 1 -> "empty"
      [] (i + seed) % 3 = 2 -> "fail"

\* The session state the chat input handler leaves, from the state st
\* before it (the snapshot writes succeed).
Handled(st, prompt, o) ==
    LET m1 == Append(st.messages, Turn("user", prompt))
        due == AutoSaveDue(m1)
        d == SaveData(0, 0, m1, st.phase, st.mult_questions, st.div_questions)
        ins == InsertTransition(st.phase, st.mult_questions, st.div_questions)
    IN [messages |-> AppendAssistant(m1, ResponseText(ins, o)),
        phase |-> NextPhase(st.phase, st.mult_questions, st.div_questions),
        mult_questions |->
            NextMult(st.phase, st.mult_questions, st.div_questions, o),
        div_questions |->
            NextDiv(st.phase, st.mult_questions, st.div_questions, o),
        file |-> IF due THEN FileAfterSave(st.file, d, "ok") ELSE st.file,
        lastSave |-> IF due THEN SaveCall(d, "ok") ELSE NoSave,
        lastCall |-> IF ins THEN NoCall ELSE ModelMessages(m1)]

\* The session after n answered submissions.
RECURSIVE Session(_, _)
Session(n, seed) ==
    IF n = 0
    THEN [messages |-> InitMessages, phase |-> "multiplication",
          mult_questions |-> InitMultQuestions,
          div_questions |-> InitDivQuestions, file |-> FileAbsent,
          lastSave |-> NoSave, lastCall |-> NoCall]
    ELSE Handled(Session(n - 1, seed), PriorPrompts[n], PriorOutcome(n, seed))

InitLong ==
    \E n \in 0..MaxPrior, seed \in 0..2 :
       LET st == Session(n, seed)
       IN /\ now = 0
          /\ conversation_id = 0
          /\ messages = st.messages
          /\ phase = st.phase
          /\ mult_questions = st.mult_questions
          /\ div_questions = st.div_questions
          /\ report_generated = FALSE
          /\ current_report = None
          /\ files = [i \in Ids |-> IF i = 0 THEN st.file ELSE FileAbsent]
          /\ lastSave = st.lastSave
          /\ lastCall = st.lastCall
          /\ peer = PeerOff
          /\ created = <<0>>
          /\ events = MaxEvents - LongSteps

NextLong ==
    \/ \E p \in Prompts, o \in ChatOutcomes, so \in SaveOutcomes : Submit(p, o, so)
    \/ \E o \in ReportOutcomes : GenerateReport(o)

SpecLong == InitLong /\ [][NextLong]_vars

(* ------------------------------ claims -------------------------------- *)

\* The newest turn of a transcript.
Last(s) == s[Len(s)]

\* The step stays within the current session (it is no reset).
SameSession == created' = created

\* The step is a run of the chat input handler.
SubmitStep == \E p \in Prompts, o \in ChatOutcomes, so \in SaveOutcomes : Submit(p, o, so)

\* The step is a run of the chat input handler whose completion call raised.
FailedSubmitStep == \E p \in Prompts, so \in SaveOutcomes : Submit(p, "fail", so)

\* Submissions answered so far in the current session.
Answered == (Len(messages) - 1) \div 2

\* The positions of the transcript that hold the fixed transition text.
TransitionTurns == {i \in DOMAIN messages : messages[i] = Turn("assistant", Transition)}

\* The assistant turns behind the opening that are no error marker.
AskedTurns ==
    {i \in 2..Len(messages) :
        messages[i].role = "assistant" /\ messages[i].content # ErrorMarker}

\* C1: a submission whose completion call fails, made in phase
\* multiplication or division outside the transition, appends the error
\* marker as the assistant turn and leaves the question counter of the
\* current phase as it was before the submission; the next successful
\* submission counts from that value, so that the two counters together
\* count the opening and the assistant turns that are no error marker.
C1_FailureLeavesCounter ==
    /\ [][FailedSubmitStep /\ ~InsertTransition(phase, mult_questions, div_questions)
            => /\ Last(messages') = Turn("assistant", ErrorMarker)
               /\ mult_questions' = mult_questions
               /\ div_questions' = div_questions]_vars
    /\ [](mult_questions + div_questions = InitMultQuestions + Cardinality(AskedTurns))

\* C2 as stated: the transition text answers the message submitted after the
\* fifth, the sixth submission of the session.
C2_TransitionAnswersSixth ==
    \A i \in TransitionTurns : i = 2 * (TransitionThreshold + 1) + 1

\* C2 as amended: from a new session, the first four submissions are answered
\* in phase multiplication and the fifth submission is the one answered with
\* the fixed transition text; on it phase becomes division and
\* div_questions becomes 1.
C2_TransitionAnswersFifth ==
    /\ \A i \in TransitionTurns : i = 2 * TransitionThreshold + 1
    /\ Answered < TransitionThreshold =>
          /\ phase = "multiplication"
          /\ mult_questions = InitMultQuestions + Answered
          /\ TransitionTurns = {}
    /\ Answered >= TransitionThreshold =>
          /\ phase = "division"
          /\ TransitionTurns = {2 * TransitionThreshold + 1}
    /\ Answered = TransitionThreshold => div_questions = 1

C2_Witness ==
    /\ Answered = TransitionThreshold
    /\ Last(messages) = Turn("assistant", Transition)
    /\ phase = "division"
    /\ div_questions = 1

\* C3: within a session the transition text is in the transcript at most
\* once; a submission appends it exactly when it is processed with
\* mult_questions >= 5 and div_questions = 0, and once it has been appended
\* that condition never holds again.
C3_TransitionOnce ==
    /\ [](Cardinality(TransitionTurns) <= 1)
    /\ [](TransitionTurns # {} => ~(mult_questions >= 5 /\ div_questions = 0))
    /\ [][SubmitStep =>
            (Last(messages') = Turn("assistant", Transition)
               <=> (mult_questions >= 5 /\ div_questions = 0))]_vars

C3_Witness ==
    /\ TransitionTurns # {}
    /\ Answered > TransitionThreshold
    /\ Last(messages).content # Transition

\* C4: every submission lengthens the transcript by exactly two turns, the
\* respondent's and then one assistant turn, whatever the completion call
\* did; within a session no step changes or removes a turn already there.
C4_TwoTurnsPerSubmission ==
    /\ [][SubmitStep =>
            /\ Len(messages') = Len(messages) + 2
            /\ messages'[Len(messages) + 1].role = "user"
            /\ messages'[Len(messages) + 2].role = "assistant"]_vars
    /\ [][SameSession =>
            /\ Len(messages') >= Len(messages)
            /\ SubSeq(messages', 1, Len(messages)) = messages]_vars

C4_Witness ==
    /\ TransitionTurns # {}
    /\ \E i, j, k \in DOMAIN messages :
          /\ messages[i] = Turn("assistant", ErrorMarker)
          /\ messages[j] = Turn("assistant", Reply)
          /\ messages[k] = Turn("assistant", Empty)

\* The order of the phases.
PhaseRank(ph) ==
    CASE ph = "multiplication" -> 0
      [] ph = "division" -> 1
      [] ph = "done" -> 2

\* C5: within a session no step (submission, snapshot, report request or
\* clock tick) moves phase backwards along multiplication, division, done;
\* phase leaves multiplication only for division, on the step that appends
\* the transition text, which a session holds at most once.
C5_PhaseMonotonic ==
    /\ [](phase \in {"multiplication", "division", "done"})
    /\ [][SameSession => PhaseRank(phase') >= PhaseRank(phase)]_vars
    /\ [][SameSession /\ phase' # phase =>
            /\ phase = "multiplication"
            /\ phase' = "division"
            /\ TransitionTurns = {}]_vars

C5_Witness ==
    /\ phase = "division"
    /\ Answered > TransitionThreshold
    /\ report_generated
    /\ lastSave.called

\* C6: div_questions is 0 in every state with phase = multiplication; the
\* step on which phase changes from multiplication to division appends the
\* transition text, sets div_questions to 1 and leaves mult_questions as it
\* was.
C6_DivisionCountAtTransition ==
    /\ [](phase = "multiplication" => div_questions = 0)
    /\ [][SameSession /\ phase = "multiplication" /\ phase' # "multiplication" =>
            /\ phase' = "division"
            /\ div_questions' = 1
            /\ mult_questions' = mult_questions
            /\ Last(messages') = Turn("assistant", Transition)]_vars

C6_Witness ==
    /\ phase = "division"
    /\ div_questions = 1
    /\ mult_questions = TransitionThreshold
    /\ Last(messages) = Turn("assistant", Transition)

\* Phase and counters after n submissions that the completion call all
\* answered with a text.
RECURSIVE AllAnswered(_)
AllAnswered(n) ==
    IF n = 0
    THEN <<"multiplication", InitMultQuestions, InitDivQuestions>>
    ELSE LET s == AllAnswered(n - 1)
         IN <<NextPhase(s[1], s[2], s[3]),
              NextMult(s[1], s[2], s[3], "ok"),
              NextDiv(s[1], s[2], s[3], "ok")>>

\* C7: phase and both counters after any number of submissions of a session
\* are those of the run in which every completion call returned a text, so
\* that runs that differ only in what the completion calls did (text, empty
\* output, failure) agree on phase, counters and the turn of the transition.
C7_OutcomeIndependent ==
    /\ <<phase, mult_questions, div_questions>> = AllAnswered(Answered)
    /\ \A i \in TransitionTurns : i = 2 * TransitionThreshold + 1

C7_Witness ==
    /\ phase = "division"
    /\ div_questions > 1
    /\ \E i, j \in 1..(2 * TransitionThreshold) :
          /\ messages[i] = Turn("assistant", ErrorMarker)
          /\ messages[j] = Turn("assistant", Empty)
    /\ Last(messages).content \in {ErrorMarker, Empty}

\* The step is a report request.
ReportStep == \E o \in ReportOutcomes : GenerateReport(o)

C9_ResetFreshSession ==
    [][~SameSession =>
         /\ \A i \in DOMAIN created : created[i] # conversation_id'
         /\ messages' = InitMessages
         /\ phase' = "multiplication"
         /\ mult_questions' = 1
         /\ div_questions' = 0
         /\ ~report_generated'
         /\ current_report' = None]_vars

\* C10: a reset made with more than 2 turns in the transcript calls the
\* snapshot with the outgoing session's id, transcript, phase and counters
\* (and the file holds them when the write succeeds); a reset made with 2
\* turns or fewer calls no snapshot and writes no file; either way, and
\* whatever the write did, the outgoing state is gone after the step.
C10_ResetSnapshot ==
    [][~SameSession =>
         /\ Len(messages) > 2 =>
               /\ lastSave'.called
               /\ lastSave'.data =
                     <<SaveData(conversation_id, now, messages, phase,
                                mult_questions, div_questions)>>
               /\ lastSave'.result # None =>
                     files'[conversation_id] = FileSaved(lastSave'.data[1])
         /\ Len(messages) <= 2 => ~lastSave'.called /\ files' = files
         /\ messages' = InitMessages
         /\ phase' = "multiplication"
         /\ mult_questions' = InitMultQuestions
         /\ div_questions' = InitDivQuestions
         /\ ~report_generated'
         /\ current_report' = None]_vars

C10_Witness ==
    /\ Len(created) > 1
    /\ messages = InitMessages
    /\ lastSave.called
    /\ lastSave.result = None
    /\ lastSave.data[1].phase = "division"
    /\ Len(lastSave.data[1].messages) > 2

\* C11: a submission whose snapshot write fails ends with the transcript,
\* phase and counters it would have with a successful write (the respondent's
\* turn and one assistant turn appended, phase and counters updated from
\* their values before the submission), and the snapshot, whatever its
\* result, leaves session id and report as they were.
C11_SnapshotFailureHarmless ==
    [][\A p \in Prompts, so \in SaveOutcomes :
          (\E o \in ChatOutcomes : Submit(p, o, so)) =>
              \E o \in ChatOutcomes :
                 LET ins == InsertTransition(phase, mult_questions, div_questions)
                 IN /\ messages' =
                         messages \o <<Turn("user", p),
                                       Turn("assistant", ResponseText(ins, o))>>
                    /\ phase' = NextPhase(phase, mult_questions, div_questions)
                    /\ mult_questions' =
                         NextMult(phase, mult_questions, div_questions, o)
                    /\ div_questions' =
                         NextDiv(phase, mult_questions, div_questions, o)
                    /\ UNCHANGED <<conversation_id, report_generated,
                                   current_report>>]_vars

C11_Witness ==
    /\ lastSave.called
    /\ lastSave.result = None
    /\ Len(messages) = Len(lastSave.data[1].messages) + 1
    /\ Last(messages).role = "assistant"
    /\ mult_questions = lastSave.data[1].mult_questions + 1
    /\ files[conversation_id].status = "truncated"

\* C12: report_generated is true exactly when current_report holds a report,
\* also after a report request whose completion call failed or returned no
\* content.
C12_ReadyIffPopulated == report_generated <=> current_report # None

\* C14: within a session neither counter decreases and neither changes by
\* more than 1 in a step; mult_questions changes only on a step taken and
\* ended in phase multiplication, div_questions only on a step that ends in
\* phase division, and once phase is division mult_questions keeps the value
\* it had at the transition.
C14_CountersMonotoneFrozen ==
    /\ [][SameSession =>
            /\ mult_questions' \in {mult_questions, mult_questions + 1}
            /\ div_questions' \in {div_questions, div_questions + 1}
            /\ mult_questions' # mult_questions =>
                  phase = "multiplication" /\ phase' = "multiplication"
            /\ div_questions' # div_questions => phase' = "division"]_vars
    /\ [](phase = "division" => mult_questions = TransitionThreshold)

C14_Witness ==
    /\ phase = "division"
    /\ div_questions > 2
    /\ mult_questions = TransitionThreshold

\* C15: a submission calls the snapshot exactly when the transcript with the
\* respondent's new turn has a length that is a multiple of 4; the snapshot
\* holds that transcript, the respondent's turn last, with the phase and the
\* counters of before the submission's decision and counter update.
C15_AutoSaveBeforeReply ==
    [][\A p \in Prompts :
          (\E o \in ChatOutcomes, so \in SaveOutcomes : Submit(p, o, so)) =>
              LET m1 == Append(messages, Turn("user", p))
              IN /\ lastSave'.called <=> Len(m1) % 4 = 0
                 /\ lastSave'.called =>
                       /\ lastSave'.data[1].messages = m1
                       /\ lastSave'.data[1].messages = SubSeq(messages', 1, Len(m1))
                       /\ lastSave'.data[1].session_id = conversation_id
                       /\ lastSave'.data[1].phase = phase
                       /\ lastSave'.data[1].mult_questions = mult_questions
                       /\ lastSave'.data[1].div_questions = div_questions]_vars

C15_Witness ==
    /\ lastSave.called
    /\ Len(lastSave.data[1].messages) = 12
    /\ Last(lastSave.data[1].messages).role = "user"
    /\ lastSave.data[1].div_questions = 1
    /\ div_questions = 2
    /\ Len(messages) = 13

\* C16: a report request leaves session id, transcript, phase and both
\* counters as they were, whatever the completion call did; when the call
\* fails the request ends with the error document as the report and
\* report_generated set with it.
C16_ReportFrame ==
    /\ [][ReportStep =>
            UNCHANGED <<conversation_id, messages, phase, mult_questions,
                        div_questions>>]_vars
    /\ [][GenerateReport("fail") =>
            /\ current_report' = ReportError
            /\ current_report' # None
            /\ report_generated']_vars

C16_Witness ==
    /\ current_report = ReportError
    /\ report_generated
    /\ phase = "division"

\* The assistant turns of a transcript.
AssistantTurns(msgs) == {i \in DOMAIN msgs : msgs[i].role = "assistant"}

\* C19: between handler runs mult_questions + div_questions is the number of
\* assistant turns of the transcript, and so it is for the counters and the
\* messages of every snapshot called and of every snapshot file written.
C19_CountersCountAssistantTurns ==
    /\ mult_questions + div_questions = Cardinality(AssistantTurns(messages))
    /\ lastSave.called =>
          lastSave.data[1].mult_questions + lastSave.data[1].div_questions
             = Cardinality(AssistantTurns(lastSave.data[1].messages))
    /\ \A i \in Ids :
          files[i].status = "saved" =>
             files[i].content[1].mult_questions + files[i].content[1].div_questions
                = Cardinality(AssistantTurns(files[i].content[1].messages))

C19_Witness ==
    /\ phase = "division"
    /\ div_questions > 1
    /\ files[conversation_id].status = "saved"
    /\ Len(files[conversation_id].content[1].messages) = 12
    /\ \E i, j \in DOMAIN messages :
          /\ messages[i] = Turn("assistant", ErrorMarker)
          /\ messages[j] = Turn("assistant", Empty)

\* C20: between handler runs the transcript starts with the opening turn,
\* its roles alternate assistant, user, ..., assistant, and its length is
\* odd; so the report is offered from the third answered submission on and
\* the reset saves from the first answered submission on.
C20_TranscriptShape ==
    /\ Len(messages) % 2 = 1
    /\ messages[1] = Turn("assistant", Welcome)
    /\ \A i \in DOMAIN messages :
          messages[i].role = IF i % 2 = 1 THEN "assistant" ELSE "user"
    /\ Last(messages).role = "assistant"
    /\ ReportOffered(messages) <=> Answered >= 3
    /\ ResetSaveDue(messages) <=> Answered >= 1

C20_Witness ==
    /\ Answered = 3
    /\ ReportOffered(messages)
    /\ report_generated
    /\ Len(created) > 1
    /\ \E i \in Ids : files[i].status = "saved" /\ Len(files[i].content[1].messages) = 3

\* The step is a run of the chat input handler for the second session.
PeerSubmitStep ==
    \E p \in Prompts, o \in ChatOutcomes, so \in SaveOutcomes : PeerSubmit(p, o, so)

\* C13: of two sessions active at the same time, also when both were
\* created in the same clock second, neither ever writes the snapshot file
\* of the other: a handler run of one leaves the file named by the other's
\* id as it was.
C13_DisjointRecords ==
    /\ [][peer.active /\ PeerSubmitStep =>
            files'[conversation_id] = files[conversation_id]]_vars
    /\ [][peer.active /\ SubmitStep =>
            files'[peer.conversation_id] = files[peer.conversation_id]]_vars

\* The smaller of two numbers.
Min(a, b) == IF a < b THEN a ELSE b

\* C17: outside the transition, the chat completion call gets the system
\* message followed by the last min(20, n) turns of the transcript in
\* transcript order, n counting the respondent's new turn, which is its last
\* element; the turns before the window stay in the transcript.
C17_ModelWindow ==
    [][\A p \in Prompts :
          /\ \E o \in ChatOutcomes, so \in SaveOutcomes : Submit(p, o, so)
          /\ ~InsertTransition(phase, mult_questions, div_questions)
          => LET m1 == Append(messages, Turn("user", p))
                 n == Len(m1)
                 k == Min(20, n)
             IN /\ Len(lastCall') = 1 + k
                /\ lastCall'[1] = Turn("system", SystemPrompt)
                /\ \A j \in 1..k : lastCall'[1 + j] = m1[n - k + j]
                /\ Last(lastCall') = Turn("user", p)
                /\ SubSeq(messages', 1, n) = m1]_vars

C17_Witness ==
    /\ Len(messages) = 25
    /\ Len(lastCall) = 21
    /\ lastCall[2] = messages[5]
    /\ lastCall[21] = messages[24]
    /\ messages[4] # messages[24]
    /\ events = MaxEvents - LongSteps + 1

\* C18: phase is never done; once phase is division every step leaves it
\* division, and every submission made in it, whatever div_questions is, is
\* taken and answered by a chat completion call (its text, its empty output
\* or the error marker), never by a fixed closing text.
C18_DivisionNeverCloses ==
    /\ [](phase # "done")
    /\ [][phase = "division" => phase' = "division"]_vars
    /\ [][phase = "division" /\ SubmitStep =>
            /\ lastCall' # NoCall
            /\ Last(lastCall') = messages'[Len(messages') - 1]
            /\ Last(messages').content \in {Reply, Empty, ErrorMarker}
            /\ div_questions' = div_questions + 1]_vars
    /\ [](phase = "division" /\ events < MaxEvents => ENABLED SubmitStep)

C18_Witness ==
    /\ phase = "division"
    /\ div_questions > TransitionThreshold + 2
    /\ lastCall # NoCall
    /\ events = MaxEvents

====
